---- MODULE Spec2Model ----
(***************************************************************************)
(* Deal stage transition and automation engine of salesbase-backend:       *)
(* PUT /deals/:dealId/stage, processAutomationRules and                    *)
(* executeAutomationRule (routes/pipeline), run against a PostgreSQL       *)
(* connection taken from the pool.  Every request owns one transaction;    *)
(* the database is READ COMMITTED: a SELECT sees committed rows, an UPDATE *)
(* waits for the row lock and then writes the latest committed version, a  *)
(* failed statement puts the transaction in the aborted state, in which    *)
(* every further statement fails and COMMIT ends the transaction as a      *)
(* ROLLBACK without raising an error.                                      *)
(* Probabilities are DECIMAL(3,2) values, written here in hundredths.      *)
(* GET /analytics/overview computes the pipeline snapshot through           *)
(* getOrSetCache (cache.js), a cache-aside read of one Redis key.  Rates    *)
(* are percentages with two decimals, written here in hundredths of a      *)
(* percent; time is in seconds.                                            *)
(***************************************************************************)
EXTENDS Integers, Sequences, FiniteSets, TLC

\* ------------------------------------------------------------------ bounds
NumDeals == 2
MaxRules == 2
MaxFaults == 1
MaxOutages == 1
MaxTicks == 4
MaxOverviewDeals == 4
MaxCrudOps == 2

\* ------------------------------------------------------- program constants
Null == 0
HTTP_OK == 200
HTTP_BAD_REQUEST == 400
HTTP_FORBIDDEN == 403
HTTP_NOT_FOUND == 404
HTTP_ERROR == 500
\* DECIMAL(3,2): three digits, two of them after the point; |value| < 10.00
DecimalLimit == 1000
\* getOrSetCache('analytics_overview', ..., 300): the expiry, in seconds
TTL == 300
\* (won_deals::decimal / deal_count) * 100
Percent == 100
\* ROUND(..., 2) and Math.round(x * 100) / 100: hundredths
Cent == 100

\* The requests of a run: one, or a pair whose transactions may overlap.
Reqs == {1, 2}
Deals == 1..NumDeals
Users == {1, 2}
\* The calls of GET /analytics/overview of a run: one, or a pair that may
\* overlap.
Views == {1, 2}

\* users.role
role == [u \in Users |-> IF u = 2 THEN "admin" ELSE "sales_rep"]

\* pipeline_stages rows, by id
pipeline_stages ==
  <<[win_probability |-> 10, is_active |-> TRUE, display_order |-> 1],
    [win_probability |-> 25, is_active |-> TRUE, display_order |-> 3],
    [win_probability |-> 50, is_active |-> FALSE, display_order |-> 2]>>
Stages == DOMAIN pipeline_stages

\* stage_id values a request body may carry: not positive, the stages, an
\* id that no stage has
StageIds == Stages \cup {0, 9}

\* --------------------------------------------------------------- the rules
NoData == [present |-> FALSE, probability |-> 60]
Data(p) == [present |-> TRUE, probability |-> p]

Rule(f, t, a, d, p, act) ==
  [from_stage_id |-> f, to_stage_id |-> t, action_type |-> a,
   action_data |-> d, priority |-> p, is_active |-> act]

\* The rule rows the automation_rules table is filled from.
RuleCatalog ==
  { Rule(1, 2, "update_probability", Data(60), 2, TRUE),
    Rule(Null, Null, "update_probability", Data(80), 1, TRUE),
    Rule(Null, Null, "send_email", Data(60), 1, TRUE),
    Rule(Null, 2, "send_email", NoData, 2, TRUE),
    Rule(1, Null, "create_task", Data(60), 2, TRUE),
    Rule(Null, Null, "update_probability", Data(DecimalLimit), 1, TRUE),
    Rule(Null, Null, "archive_deal", Data(60), 1, TRUE),
    Rule(Null, Null, "send_email", Data(60), 2, FALSE),
    Rule(2, 3, "send_email", Data(60), 1, TRUE) }

\* The automation_rules tables of the runs with overlapping requests.
ConcurrentTables ==
  { <<>>,
    <<Rule(1, 2, "update_probability", Data(60), 2, TRUE)>>,
    <<Rule(Null, Null, "send_email", Data(60), 1, TRUE),
      Rule(1, Null, "create_task", Data(60), 2, TRUE)>> }

SeqsUpTo(S, n) == UNION { [1..k -> S] : k \in 0..n }

VARIABLES
  deals,               \* committed deals rows, by id
  deal_stage_history,  \* committed deal_stage_history rows, in commit order
  automation_log,      \* committed automation_log rows
  activities,          \* committed activities rows written by create_task
  email_queue,         \* committed email_queue rows
  automation_rules,    \* automation_rules rows; the index is the id
  rowLock,             \* deals row lock: the request whose transaction holds it
  pc,                  \* where each request's handler stands
  body,                \* req.params, req.body and req.user
  deal,                \* currentDeal.rows[0] of the handler
  tx,                  \* the request's transaction: state and pending writes
  selected,            \* rules.rows, the result of the rule selection query
  rulesLeft,           \* rules.rows not yet iterated by processAutomationRules
  status,              \* the HTTP status answered
  updatedDeal,         \* updatedDeal.rows[0], the deal of the response
  attempted,           \* rule ids executeAutomationRule was called with
  threw,               \* rule ids whose action raised
  applied,             \* TRUE once the request's COMMIT made its writes durable
  overlapped,          \* the requests whose transaction was open at BEGIN
  faults,              \* infrastructure failures still to happen
  clients,             \* how many requests the run sends
  now,                 \* the clock, in seconds
  changedAt,           \* when the latest transition was committed
  redis,               \* the Redis entries, by key
  viewers,             \* how many overview calls the run makes
  outages,             \* Redis failures still to happen
  vpc,                 \* where each overview call stands
  vstatus,             \* the HTTP status the overview call is answered
  vdata,               \* fresh, or data: the snapshot of the overview call
  vtrace,              \* what getOrSetCache did for the overview call
  conn,                \* each request's pool client and HTTP response
  deleted,             \* the ids of the deals rows that were deleted
  crudLeft,            \* deal update and delete requests still to come
  answer               \* the last deal update or delete request and its status

dbVars == <<deals, deal_stage_history, automation_log, activities, email_queue>>
reqVars == <<automation_rules, rowLock, pc, body, deal, tx, selected, rulesLeft,
             status, updatedDeal, attempted, threw, applied, overlapped, faults,
             clients, conn>>
crudVars == <<deleted, crudLeft, answer>>
viewVars == <<now, redis, viewers, outages, vpc, vstatus, vdata, vtrace>>
vars == <<deals, deal_stage_history, automation_log, activities, email_queue,
          automation_rules, rowLock, pc, body, deal, tx, selected, rulesLeft,
          status, updatedDeal, attempted, threw, applied, overlapped, faults,
          clients, changedAt, now, redis, viewers, outages, vpc, vstatus,
          vdata, vtrace, conn, deleted, crudLeft, answer>>

\* No transaction: nothing pending.  deals maps the ids of the deals rows the
\* transaction has written to the columns it wrote.
NoTx == [state |-> "none", deals |-> <<>>, history |-> <<>>, log |-> <<>>,
         activities |-> <<>>, email |-> <<>>]
NoBody == [dealId |-> Null, stage_id |-> Null, trigger_automation |-> FALSE,
           userId |-> Null]
NoDeal == [pipeline_stage_id |-> Null, probability |-> Null,
           assigned_user_id |-> Null, new_win_probability |-> Null]

\* Deal 1 is a Lead deal of user 1, the other deals are Qualified deals of
\* user 2; the ledgers are empty.
InitialDeals ==
  [d \in Deals |->
     IF d = 1
       THEN [pipeline_stage_id |-> 1, probability |-> 10,
             assigned_user_id |-> 1, status |-> "open"]
       ELSE [pipeline_stage_id |-> 2, probability |-> 25,
             assigned_user_id |-> 2, status |-> "won"]]

\* The snapshot, the Redis entry and the getOrSetCache record of an overview
\* call before anything was computed, stored or done.
NoSnapshot ==
  [pipeline_stages |-> <<>>,
   pipeline_summary |-> [total_deals |-> 0, avg_win_rate |-> 0],
   last_updated |-> 0]
NoEntry == [present |-> FALSE, text |-> [json |-> NoSnapshot], expiresAt |-> 0,
            by |-> Null, at |-> 0]
NoTrace == [getAt |-> 0, saw |-> NoEntry, fetches |-> 0, stored |-> NoEntry,
            failed |-> FALSE, stale |-> 0]

\* The one key the repository caches under.
Keys == {"analytics_overview"}

\* No overview call has arrived, Redis is empty, the clock is at 0.
StartViews ==
  /\ now = 0
  /\ changedAt = 0
  /\ redis = [k \in Keys |-> NoEntry]
  /\ vpc = [c \in Views |-> "idle"]
  /\ vstatus = [c \in Views |-> Null]
  /\ vdata = [c \in Views |-> NoSnapshot]
  /\ vtrace = [c \in Views |-> NoTrace]

\* No client was taken from the pool and no response was sent.
NoConn == [acquired |-> FALSE, released |-> 0, ended |-> FALSE, responses |-> 0]

\* No deal update or delete request was made.
NoAnswer == [op |-> "none", dealId |-> Null, status |-> Null]

StartCrud ==
  /\ conn = [r \in Reqs |-> NoConn]
  /\ deleted = {}
  /\ answer = NoAnswer

Start ==
  /\ StartViews
  /\ StartCrud
  /\ deals = InitialDeals
  /\ deal_stage_history = <<>>
  /\ automation_log = <<>>
  /\ activities = <<>>
  /\ email_queue = <<>>
  /\ rowLock = [d \in Deals |-> Null]
  /\ pc = [r \in Reqs |-> "idle"]
  /\ body = [r \in Reqs |-> NoBody]
  /\ deal = [r \in Reqs |-> NoDeal]
  /\ tx = [r \in Reqs |-> NoTx]
  /\ selected = [r \in Reqs |-> <<>>]
  /\ rulesLeft = [r \in Reqs |-> <<>>]
  /\ status = [r \in Reqs |-> Null]
  /\ updatedDeal = [r \in Reqs |-> NoDeal]
  /\ attempted = [r \in Reqs |-> <<>>]
  /\ threw = [r \in Reqs |-> {}]
  /\ applied = [r \in Reqs |-> FALSE]
  /\ overlapped = [r \in Reqs |-> {}]

\* One request at a time, any table of at most MaxRules rules.
Init ==
  /\ Start
  /\ automation_rules \in SeqsUpTo(RuleCatalog, MaxRules)
  /\ clients = 1
  /\ faults = MaxFaults
  /\ viewers = 0
  /\ outages = 0
  /\ crudLeft = 0

\* Two requests that may overlap.
InitConcurrent ==
  /\ Start
  /\ automation_rules \in ConcurrentTables
  /\ clients = 2
  /\ faults = MaxFaults
  /\ viewers = 0
  /\ outages = 0
  /\ crudLeft = 0

\* The automation_rules table of the runs with overview calls.
OverviewTable == <<Rule(Null, Null, "send_email", Data(60), 1, TRUE)>>

\* One transition request and two overview calls, in any interleaving,
\* with a Redis that may fail and a database that does not.
InitCache ==
  /\ Start
  /\ automation_rules = OverviewTable
  /\ clients = 1
  /\ faults = 0
  /\ viewers = Cardinality(Views)
  /\ outages = MaxOutages
  /\ crudLeft = 0

\* One transition request and MaxCrudOps deal update or delete requests.
InitCrud ==
  /\ Start
  /\ automation_rules = OverviewTable
  /\ clients = 1
  /\ faults = 0
  /\ viewers = 0
  /\ outages = 0
  /\ crudLeft = MaxCrudOps

\* The deals tables the overview is computed from: every assignment of a
\* stage and a status to MaxOverviewDeals deals.
OverviewDeals ==
  [1..MaxOverviewDeals ->
     [pipeline_stage_id : Stages, probability : {10}, assigned_user_id : {1},
      status : {"open", "won", "lost"}]]

\* One overview call on any deals table, no transition request.
InitOverview ==
  /\ StartViews
  /\ StartCrud
  /\ crudLeft = 0
  /\ deals \in OverviewDeals
  /\ deal_stage_history = <<>>
  /\ automation_log = <<>>
  /\ activities = <<>>
  /\ email_queue = <<>>
  /\ rowLock = [d \in Deals |-> Null]
  /\ pc = [r \in Reqs |-> "idle"]
  /\ body = [r \in Reqs |-> NoBody]
  /\ deal = [r \in Reqs |-> NoDeal]
  /\ tx = [r \in Reqs |-> NoTx]
  /\ selected = [r \in Reqs |-> <<>>]
  /\ rulesLeft = [r \in Reqs |-> <<>>]
  /\ status = [r \in Reqs |-> Null]
  /\ updatedDeal = [r \in Reqs |-> NoDeal]
  /\ attempted = [r \in Reqs |-> <<>>]
  /\ threw = [r \in Reqs |-> {}]
  /\ applied = [r \in Reqs |-> FALSE]
  /\ overlapped = [r \in Reqs |-> {}]
  /\ faults = 0
  /\ automation_rules = <<>>
  /\ clients = 0
  /\ viewers = 1
  /\ outages = 0

\* ----------------------------------------------------- request validation
\* Joi schema of the handler: stage_id is a required positive integer.
ValidBody(b) == b.stage_id > 0

\* req.user.userId as the handler reads it.  authenticateToken sets req.user
\* to the users row (id, email, role, ...), which has no userId property, so
\* the handler reads undefined, which the driver sends as NULL.
ReqUserUserId(u) == Null

\* ------------------------------------------------------------- the queries
\* The SELECT, were ps_new joined with LEFT JOIN: a row for every deal, with
\* a NULL new_win_probability when no stage has the id.
CurrentDealRowsLeftJoin(dealId, stage_id) ==
  IF dealId \in Deals \ deleted
    THEN {[pipeline_stage_id |-> deals[dealId].pipeline_stage_id,
           probability |-> deals[dealId].probability,
           assigned_user_id |-> deals[dealId].assigned_user_id,
           new_win_probability |->
              IF stage_id \in Stages
                THEN pipeline_stages[stage_id].win_probability ELSE Null]}
    ELSE {}

\* SELECT d.*, ... FROM deals d JOIN pipeline_stages ps_current ...
\* JOIN pipeline_stages ps_new ON ps_new.id = $1 WHERE d.id = $2
CurrentDealRows(dealId, stage_id) ==
  IF dealId \in Deals \ deleted /\ stage_id \in Stages
       /\ deals[dealId].pipeline_stage_id \in Stages
    THEN {[pipeline_stage_id |-> deals[dealId].pipeline_stage_id,
           probability |-> deals[dealId].probability,
           assigned_user_id |-> deals[dealId].assigned_user_id,
           new_win_probability |-> pipeline_stages[stage_id].win_probability]}
    ELSE {}

\* deal.assigned_user_id !== req.user.userId && req.user.role !== 'admin'
AccessDenied(d, u) ==
  d.assigned_user_id # ReqUserUserId(u) /\ role[u] # "admin"

\* The UPDATE, were it to leave the probability column as it was read.
KeepProbability(d) == d.probability

\* SET pipeline_stage_id = $1, probability = $2, with [stage_id,
\* deal.new_win_probability, dealId]
NewProbability(d) == d.new_win_probability

\* The UPDATE, were it to lack its WHERE clause.
UpdatedRowsAll(dealId) == Deals

\* WHERE id = $3 of the UPDATE: the deals rows a request's UPDATE writes
UpdatedRows(dealId) == {dealId}

\* The INSERT, were it to take from_stage_id from the request as well.
HistoryRowFromRequest(r, d, b) ==
  [deal_id |-> b.dealId, from_stage_id |-> b.stage_id,
   to_stage_id |-> b.stage_id, changed_by_user_id |-> ReqUserUserId(b.userId),
   req |-> r]

\* VALUES ($1..$5) of the deal_stage_history INSERT
HistoryRow(r, d, b) ==
  [deal_id |-> b.dealId, from_stage_id |-> d.pipeline_stage_id,
   to_stage_id |-> b.stage_id, changed_by_user_id |-> ReqUserUserId(b.userId),
   req |-> r]

\* WHERE is_active = true AND (from_stage_id = $1 OR from_stage_id IS NULL)
\*   AND (to_stage_id = $2 OR to_stage_id IS NULL)
RuleMatches(rule, fromStageId, toStageId) ==
  /\ rule.is_active
  /\ (rule.from_stage_id = fromStageId \/ rule.from_stage_id = Null)
  /\ (rule.to_stage_id = toStageId \/ rule.to_stage_id = Null)

MatchedRules(fromStageId, toStageId) ==
  { i \in DOMAIN automation_rules :
      RuleMatches(automation_rules[i], fromStageId, toStageId) }

\* The query, were it ORDER BY priority ASC.
OrderedByPriorityAsc(s) ==
  \A i, j \in DOMAIN s :
     i < j => automation_rules[s[i]].priority <= automation_rules[s[j]].priority

\* ORDER BY priority DESC: rows of equal priority come in any order
OrderedByPriority(s) ==
  \A i, j \in DOMAIN s :
     i < j => automation_rules[s[i]].priority >= automation_rules[s[j]].priority

Orderings(S) ==
  { s \in [1..Cardinality(S) -> S] :
      /\ \A i, j \in DOMAIN s : i # j => s[i] # s[j]
      /\ OrderedByPriority(s) }

\* ------------------------------------------------------ executeAutomationRule
\* What the switch of executeAutomationRule does for a rule, before the log
\* row is written:
\*   "throw"    an exception raised in the handler while the statement's
\*              arguments are evaluated (rule.action_data is null), no
\*              statement is sent;
\*   "dberror"  the statement is sent and the database rejects it: the
\*              create_task INSERT carries a // comment inside the SQL text,
\*              and a probability of 10.00 or more overflows DECIMAL(3,2);
\*   "ok"       the statement ran, or the action_type is unknown and nothing
\*              was sent.
\* The switch, were its default branch to throw.
ActionOutcomeStrict(rule) ==
  CASE rule.action_type = "create_task" ->
         IF rule.action_data.present THEN "dberror" ELSE "throw"
    [] rule.action_type = "send_email" ->
         IF rule.action_data.present THEN "ok" ELSE "throw"
    [] rule.action_type = "update_probability" ->
         IF ~rule.action_data.present THEN "throw"
         ELSE IF rule.action_data.probability >= DecimalLimit THEN "dberror"
         ELSE "ok"
    [] OTHER -> "throw"

ActionOutcome(rule) ==
  CASE rule.action_type = "create_task" ->
         IF rule.action_data.present THEN "dberror" ELSE "throw"
    [] rule.action_type = "send_email" ->
         IF rule.action_data.present THEN "ok" ELSE "throw"
    [] rule.action_type = "update_probability" ->
         IF ~rule.action_data.present THEN "throw"
         ELSE IF rule.action_data.probability >= DecimalLimit THEN "dberror"
         ELSE "ok"
    [] OTHER -> "ok"

\* The update_probability UPDATE, were its WHERE clause to match no row.
ProbabilityRowsNone(dealId) == {}

\* WHERE id = $2 of the update_probability UPDATE
ProbabilityRows(dealId) == {dealId}

\* The pending writes of a transaction after a rule's action ran.
ActionEffect(t, rule, dealId, userId, r) ==
  CASE rule.action_type = "create_task" ->
         [t EXCEPT !.activities =
            Append(@, [deal_id |-> dealId, user_id |-> userId, req |-> r])]
    [] rule.action_type = "send_email" ->
         [t EXCEPT !.email =
            Append(@, [deal_id |-> dealId, recipient_user_id |-> userId,
                       req |-> r])]
    [] rule.action_type = "update_probability" ->
         [t EXCEPT !.deals =
            [d \in DOMAIN @ \cup ProbabilityRows(dealId) |->
               IF d \in ProbabilityRows(dealId)
                 THEN [pipeline_stage_id |->
                         IF d \in DOMAIN @ THEN @[d].pipeline_stage_id
                         ELSE deals[d].pipeline_stage_id,
                       probability |-> rule.action_data.probability]
                 ELSE @[d]]]
    [] OTHER -> t

\* VALUES of the two automation_log INSERTs
LogRow(ruleId, dealId, userId, result, r) ==
  [rule_id |-> ruleId, deal_id |-> dealId, executed_by_user_id |-> userId,
   execution_result |-> result, has_error_message |-> (result = "failed"),
   req |-> r]

\* ---------------------------------------------------------- the transaction
\* A statement that fails leaves the transaction aborted.
Aborted(t) == [t EXCEPT !.state = "aborted"]

\* try { switch ...; INSERT INTO automation_log (... 'success') }: the
\* transaction afterwards, and whether an exception reached the catch.
\* logFails: the INSERT of the log row is hit by an infrastructure failure.
TryBlock(t, ruleId, dealId, userId, r, logFails) ==
  LET rule == automation_rules[ruleId]
      outcome == ActionOutcome(rule)
      done == ActionEffect(t, rule, dealId, userId, r)
  IN CASE outcome = "throw" -> [tx |-> t, raised |-> TRUE]
       [] outcome = "dberror" -> [tx |-> Aborted(t), raised |-> TRUE]
       [] OTHER ->
            IF logFails
              THEN [tx |-> Aborted(done), raised |-> TRUE]
              ELSE [tx |-> [done EXCEPT !.log =
                              Append(@, LogRow(ruleId, dealId, userId,
                                               "success", r))],
                    raised |-> FALSE]

\* The catch of executeAutomationRule, were it to log to the console only.
CatchBlockSilent(t, ruleId, dealId, userId, r, logFails) ==
  [tx |-> t, raised |-> t.state # "active"]

\* catch (error) { INSERT INTO automation_log (... 'failed', error.message) }:
\* the INSERT is not guarded, so when it fails the exception leaves
\* executeAutomationRule.
CatchBlock(t, ruleId, dealId, userId, r, logFails) ==
  IF t.state = "active" /\ ~logFails
    THEN [tx |-> [t EXCEPT !.log =
                    Append(@, LogRow(ruleId, dealId, userId, "failed", r))],
          raised |-> FALSE]
    ELSE [tx |-> Aborted(t), raised |-> TRUE]

\* executeAutomationRule(client, rule, dealId, userId)
ExecuteAutomationRule(t, ruleId, dealId, userId, r, logFails) ==
  LET try == TryBlock(t, ruleId, dealId, userId, r, logFails)
  IN IF try.raised
       THEN CatchBlock(try.tx, ruleId, dealId, userId, r, logFails)
       ELSE try

\* COMMIT of an active transaction: the tables after the pending rows are
\* appended.
Committed(table, pending) == table \o pending

\* The deals rows after a transaction's pending writes are applied.
CommittedDeals(t) ==
  [d \in Deals |->
     IF d \in DOMAIN t.deals
       THEN [deals[d] EXCEPT !.pipeline_stage_id = t.deals[d].pipeline_stage_id,
                             !.probability = t.deals[d].probability]
       ELSE deals[d]]

\* The end of a transaction releases the row locks it holds.
Release(r) == [d \in Deals |-> IF rowLock[d] = r THEN Null ELSE rowLock[d]]

\* const client = await pool.connect()
Acquire(c) == [c EXCEPT !.acquired = TRUE]

\* finally, were it to release the client twice.
ReleaseClientTwice(c, t) ==
  [c EXCEPT !.released = @ + 2, !.ended = t.state = "none"]

\* finally { client.release(); }: t is the request's transaction at that
\* moment, ended or not.
ReleaseClient(c, t) ==
  [c EXCEPT !.released = @ + 1, !.ended = t.state = "none"]

\* res.status(...).json(...) and res.json(...)
Respond(c) == [c EXCEPT !.responses = @ + 1]

\* The catch of the handler, were it to end the transaction with COMMIT.
CommitOnError(r) ==
  /\ conn' = [conn EXCEPT ![r] = Respond(ReleaseClient(Acquire(@), NoTx))]
  /\ deals' = CommittedDeals(tx[r])
  /\ deal_stage_history' = Committed(deal_stage_history, tx[r].history)
  /\ automation_log' = Committed(automation_log, tx[r].log)
  /\ activities' = Committed(activities, tx[r].activities)
  /\ email_queue' = Committed(email_queue, tx[r].email)
  /\ tx' = [tx EXCEPT ![r] = NoTx]
  /\ rowLock' = Release(r)
  /\ status' = [status EXCEPT ![r] = HTTP_ERROR]
  /\ pc' = [pc EXCEPT ![r] = "done"]

\* catch (error) { await client.query('ROLLBACK'); throw error; } finally
\* { client.release(); } and the outer catch's res.status(500)
Rollback500(r) ==
  /\ tx' = [tx EXCEPT ![r] = NoTx]
  /\ conn' = [conn EXCEPT ![r] = Respond(ReleaseClient(Acquire(@), tx'[r]))]
  /\ rowLock' = Release(r)
  /\ status' = [status EXCEPT ![r] = HTTP_ERROR]
  /\ pc' = [pc EXCEPT ![r] = "done"]
  /\ UNCHANGED dbVars

\* A statement of the handler may be hit by an infrastructure failure.
MayFail == IF faults > 0 THEN BOOLEAN ELSE {FALSE}
Spend(fail) == faults' = IF fail THEN faults - 1 ELSE faults

\* ------------------------------------------------------------- the handler
\* The request arrives: validation, pool.connect() and BEGIN.
Receive(r) ==
  /\ pc[r] = "idle"
  /\ r <= clients
  /\ \A q \in Reqs : q < r => pc[q] # "idle"
  /\ \E dealId \in Deals, stage_id \in StageIds, trig \in BOOLEAN, u \in Users,
        fail \in MayFail :
       LET b == [dealId |-> dealId, stage_id |-> stage_id,
                 trigger_automation |-> trig, userId |-> u]
       IN /\ body' = [body EXCEPT ![r] = b]
          /\ IF ~ValidBody(b)
               THEN /\ status' = [status EXCEPT ![r] = HTTP_BAD_REQUEST]
                    /\ pc' = [pc EXCEPT ![r] = "done"]
                    /\ fail = FALSE
                    /\ conn' = [conn EXCEPT ![r] = Respond(@)]
                    /\ UNCHANGED <<tx, rowLock, faults, overlapped>>
               ELSE IF fail
                 THEN /\ Spend(fail)
                      /\ UNCHANGED overlapped
                      /\ \E connected \in BOOLEAN :
                           IF connected
                             THEN Rollback500(r)
                             ELSE /\ status' = [status EXCEPT
                                                  ![r] = HTTP_ERROR]
                                  /\ pc' = [pc EXCEPT ![r] = "done"]
                                  /\ conn' = [conn EXCEPT ![r] = Respond(@)]
                                  /\ UNCHANGED <<tx, rowLock>>
                 ELSE /\ tx' = [tx EXCEPT ![r].state = "active"]
                      /\ conn' = [conn EXCEPT ![r] = Acquire(@)]
                      /\ overlapped' = [overlapped EXCEPT ![r] =
                           {q \in Reqs : tx[q].state # "none"}]
                      /\ pc' = [pc EXCEPT ![r] = "read"]
                      /\ UNCHANGED <<status, rowLock, faults>>
  /\ UNCHANGED <<dbVars, automation_rules, deal, rulesLeft, updatedDeal,
                 attempted, threw, applied, selected,
                 clients, changedAt, viewVars, crudVars>>

\* The SELECT of the deal joined with its stage and the target stage, the
\* 404 when it returns no row and the 403 of the ownership check.
ReadDeal(r) ==
  /\ pc[r] = "read"
  /\ \E fail \in MayFail :
       LET rows == CurrentDealRows(body[r].dealId, body[r].stage_id)
       IN /\ Spend(fail)
          /\ IF fail
               THEN Rollback500(r) /\ UNCHANGED deal
             ELSE IF rows = {}
               THEN /\ tx' = [tx EXCEPT ![r] = NoTx]
                    /\ conn' = [conn EXCEPT ![r] =
                                  Respond(ReleaseClient(@, tx'[r]))]
                    /\ status' = [status EXCEPT ![r] = HTTP_NOT_FOUND]
                    /\ pc' = [pc EXCEPT ![r] = "done"]
                    /\ UNCHANGED <<deal, rowLock, dbVars>>
             ELSE LET d == CHOOSE x \in rows : TRUE
                  IN IF AccessDenied(d, body[r].userId)
                       THEN /\ tx' = [tx EXCEPT ![r] = NoTx]
                            /\ conn' = [conn EXCEPT ![r] =
                                          Respond(ReleaseClient(@, tx'[r]))]
                            /\ status' = [status EXCEPT ![r] = HTTP_FORBIDDEN]
                            /\ pc' = [pc EXCEPT ![r] = "done"]
                            /\ UNCHANGED <<deal, rowLock, dbVars>>
                       ELSE /\ deal' = [deal EXCEPT ![r] = d]
                            /\ pc' = [pc EXCEPT ![r] = "update"]
                            /\ UNCHANGED <<tx, status, rowLock, dbVars, conn>>
  /\ UNCHANGED <<automation_rules, body, rulesLeft, updatedDeal, attempted,
                 threw, applied, selected, overlapped,
                 clients, changedAt, viewVars, crudVars>>

\* UPDATE deals SET pipeline_stage_id, probability ... RETURNING *: waits
\* while another transaction holds the row.
UpdateDeal(r) ==
  /\ pc[r] = "update"
  /\ \A d \in UpdatedRows(body[r].dealId) : rowLock[d] \in {Null, r}
  /\ \E fail \in MayFail :
       /\ Spend(fail)
       /\ IF fail
            THEN Rollback500(r) /\ UNCHANGED updatedDeal
            ELSE LET new == [pipeline_stage_id |-> body[r].stage_id,
                             probability |-> NewProbability(deal[r])]
                 IN /\ tx' = [tx EXCEPT ![r].deals =
                                [d \in UpdatedRows(body[r].dealId) |-> new]]
                    /\ rowLock' = [d \in Deals |->
                                     IF d \in UpdatedRows(body[r].dealId)
                                       THEN r ELSE rowLock[d]]
                    /\ updatedDeal' = [updatedDeal EXCEPT ![r] =
                         [deal[r] EXCEPT
                            !.pipeline_stage_id = new.pipeline_stage_id,
                            !.probability = new.probability,
                            !.assigned_user_id =
                               deals[body[r].dealId].assigned_user_id]]
                    /\ pc' = [pc EXCEPT ![r] = "history"]
                    /\ UNCHANGED <<status, dbVars, conn>>
  /\ UNCHANGED <<automation_rules, body, deal, rulesLeft, attempted, threw,
                 applied, selected, overlapped,
                 clients, changedAt, viewVars, crudVars>>

\* INSERT INTO deal_stage_history, then if (trigger_automation)
InsertHistory(r) ==
  /\ pc[r] = "history"
  /\ \E fail \in MayFail :
       /\ Spend(fail)
       /\ IF fail
            THEN Rollback500(r)
            ELSE /\ tx' = [tx EXCEPT ![r].history =
                             Append(@, HistoryRow(r, deal[r], body[r]))]
                 /\ pc' = [pc EXCEPT ![r] =
                             IF body[r].trigger_automation THEN "automation"
                             ELSE "commit"]
                 /\ UNCHANGED <<status, rowLock, dbVars, conn>>
  /\ UNCHANGED <<automation_rules, body, deal, rulesLeft, updatedDeal,
                 attempted, threw, applied, selected, overlapped,
                 clients, changedAt, viewVars, crudVars>>

\* processAutomationRules, were its catch to rethrow: a failure of the query
\* that selects the rules reaches the catch of the handler.
SelectRulesRethrow(r) ==
  /\ pc[r] = "automation"
  /\ \E fail \in MayFail :
       /\ Spend(fail)
       /\ IF fail
            THEN /\ Rollback500(r)
                 /\ UNCHANGED <<selected, rulesLeft>>
            ELSE \E rows \in Orderings(MatchedRules(deal[r].pipeline_stage_id,
                                                    body[r].stage_id)) :
                   /\ selected' = [selected EXCEPT ![r] = rows]
                   /\ rulesLeft' = [rulesLeft EXCEPT ![r] = rows]
                   /\ pc' = [pc EXCEPT ![r] =
                               IF rows = <<>> THEN "commit" ELSE "rule"]
                   /\ UNCHANGED <<tx, dbVars, rowLock, status, conn>>
  /\ UNCHANGED <<automation_rules, body, deal, updatedDeal, attempted, threw,
                 applied, overlapped, clients, changedAt, viewVars, crudVars>>

\* processAutomationRules: the query that selects the rules.  Its failure is
\* caught and logged by processAutomationRules, which returns normally.
SelectRules(r) ==
  /\ pc[r] = "automation"
  /\ \E fail \in MayFail :
       /\ Spend(fail)
       /\ IF fail
            THEN /\ tx' = [tx EXCEPT ![r] = Aborted(@)]
                 /\ UNCHANGED <<selected, rulesLeft>>
                 /\ pc' = [pc EXCEPT ![r] = "commit"]
            ELSE \E rows \in Orderings(MatchedRules(deal[r].pipeline_stage_id,
                                                    body[r].stage_id)) :
                   /\ selected' = [selected EXCEPT ![r] = rows]
                   /\ rulesLeft' = [rulesLeft EXCEPT ![r] = rows]
                   /\ pc' = [pc EXCEPT ![r] =
                               IF rows = <<>> THEN "commit" ELSE "rule"]
                   /\ UNCHANGED tx
  /\ UNCHANGED <<dbVars, automation_rules, rowLock, body, deal, status,
                 updatedDeal, attempted, threw, applied, overlapped,
                 clients, changedAt, viewVars, crudVars, conn>>

\* One iteration of for (const rule of rules.rows): executeAutomationRule.
\* An exception that leaves it ends the loop in the catch of
\* processAutomationRules, which does not rethrow.
ExecuteRule(r) ==
  /\ pc[r] = "rule"
  /\ rulesLeft[r] # <<>>
  /\ \E fail \in MayFail :
       LET ruleId == Head(rulesLeft[r])
           res == ExecuteAutomationRule(tx[r], ruleId, body[r].dealId,
                                        ReqUserUserId(body[r].userId), r, fail)
           used == fail /\ ActionOutcome(automation_rules[ruleId]) # "dberror"
       IN /\ Spend(used)
          /\ tx' = [tx EXCEPT ![r] = res.tx]
          /\ attempted' = [attempted EXCEPT ![r] = Append(@, ruleId)]
          /\ threw' = [threw EXCEPT ![r] =
                         IF ActionOutcome(automation_rules[ruleId]) = "ok"
                           THEN @ ELSE @ \cup {ruleId}]
          /\ rulesLeft' = [rulesLeft EXCEPT ![r] =
                             IF res.raised THEN <<>> ELSE Tail(@)]
          /\ pc' = [pc EXCEPT ![r] =
                      IF res.raised \/ Tail(rulesLeft[r]) = <<>>
                        THEN "commit" ELSE "rule"]
  /\ UNCHANGED <<dbVars, automation_rules, rowLock, body, deal, status,
                 updatedDeal, applied, selected, overlapped,
                 clients, changedAt, viewVars, crudVars, conn>>

\* COMMIT and res.json(...).  COMMIT of an aborted transaction rolls it back
\* and raises nothing, so the handler answers 200 all the same.
Commit(r) ==
  /\ pc[r] = "commit"
  /\ \E fail \in MayFail :
       /\ Spend(fail)
       /\ IF fail
            THEN Rollback500(r) /\ UNCHANGED <<applied, changedAt>>
          ELSE IF tx[r].state = "aborted"
            THEN /\ UNCHANGED <<dbVars, applied, changedAt>>
                 /\ tx' = [tx EXCEPT ![r] = NoTx]
                 /\ conn' = [conn EXCEPT ![r] =
                               Respond(ReleaseClient(@, tx'[r]))]
                 /\ rowLock' = Release(r)
                 /\ status' = [status EXCEPT ![r] = HTTP_OK]
                 /\ pc' = [pc EXCEPT ![r] = "done"]
          ELSE /\ deals' = CommittedDeals(tx[r])
               /\ deal_stage_history' =
                    Committed(deal_stage_history, tx[r].history)
               /\ automation_log' = Committed(automation_log, tx[r].log)
               /\ activities' = Committed(activities, tx[r].activities)
               /\ email_queue' = Committed(email_queue, tx[r].email)
               /\ applied' = [applied EXCEPT ![r] = TRUE]
               /\ changedAt' = now
               /\ tx' = [tx EXCEPT ![r] = NoTx]
               /\ conn' = [conn EXCEPT ![r] =
                             Respond(ReleaseClient(@, tx'[r]))]
               /\ rowLock' = Release(r)
               /\ status' = [status EXCEPT ![r] = HTTP_OK]
               /\ pc' = [pc EXCEPT ![r] = "done"]
  /\ UNCHANGED <<automation_rules, body, deal, rulesLeft, updatedDeal,
                 attempted, threw, selected, overlapped,
                 clients, viewVars, crudVars>>

\* ------------------------------------------------------------ deal CRUD
\* The deals rows that exist.
LiveDeals == [d \in DOMAIN deals \ deleted |-> deals[d]]

\* dealSchema: pipeline_stage_id: Joi.number().integer().positive().required()
\* (the other required keys are taken as given).
ValidDeal(b) == b.pipeline_stage_id > 0

\* UPDATE deals SET <every key of the validated body> = ..., updated_at =
\* CURRENT_TIMESTAMP WHERE id = $n: the row after the statement.
UpdatedDeal(old, b) ==
  [old EXCEPT !.pipeline_stage_id = b.pipeline_stage_id,
              !.probability = IF b.probability.present
                                THEN b.probability.probability ELSE @]

\* The rows of automation_log and email_queue reference deals(id) with no
\* ON DELETE action: a DELETE of a referenced deal is a foreign key violation.
Referenced(d) ==
  \/ \E k \in DOMAIN automation_log : automation_log[k].deal_id = d
  \/ \E k \in DOMAIN email_queue : email_queue[k].deal_id = d

\* deal_stage_history.deal_id REFERENCES deals(id) ON DELETE CASCADE
HistoryCascade(d) ==
  SelectSeq(deal_stage_history, LAMBDA row : row.deal_id # d)

\* activities.deal_id REFERENCES deals(id) ON DELETE SET NULL
ActivitiesSetNull(d) ==
  [k \in DOMAIN activities |->
     IF activities[k].deal_id = d
       THEN [activities[k] EXCEPT !.deal_id = Null] ELSE activities[k]]

\* router.put('/deals/:id'): validation, SELECT id FROM deals, then one
\* autocommitted UPDATE ... RETURNING *.  Any authenticated user may call it.
PutDeal ==
  /\ crudLeft > 0
  /\ \E d \in Deals, stage_id \in StageIds, p \in {NoData, Data(75)} :
       LET b == [pipeline_stage_id |-> stage_id, probability |-> p]
       IN IF ~ValidDeal(b)
            THEN /\ answer' = [op |-> "put", dealId |-> d,
                               status |-> HTTP_BAD_REQUEST]
                 /\ UNCHANGED <<deals, changedAt>>
          ELSE IF d \in deleted
            THEN /\ answer' = [op |-> "put", dealId |-> d,
                               status |-> HTTP_NOT_FOUND]
                 /\ UNCHANGED <<deals, changedAt>>
          ELSE /\ rowLock[d] = Null
               /\ IF b.pipeline_stage_id \notin Stages
                    THEN /\ answer' = [op |-> "put", dealId |-> d,
                                       status |-> HTTP_ERROR]
                         /\ UNCHANGED <<deals, changedAt>>
                    ELSE /\ deals' = [deals EXCEPT ![d] = UpdatedDeal(@, b)]
                         /\ changedAt' = now
                         /\ answer' = [op |-> "put", dealId |-> d,
                                       status |-> HTTP_OK]
  /\ crudLeft' = crudLeft - 1
  /\ UNCHANGED <<deal_stage_history, automation_log, activities, email_queue,
                 reqVars, viewVars, deleted>>

\* router.delete('/deals/:id', authorizeRoles('admin', 'manager')): one
\* autocommitted DELETE FROM deals WHERE id = $1 RETURNING *.  It is taken
\* while no transition has a transaction open.
DeleteDeal ==
  /\ crudLeft > 0
  /\ \A r \in Reqs : tx[r].state = "none"
  /\ \E d \in Deals, u \in Users :
       IF role[u] \notin {"admin", "manager"}
         THEN /\ answer' = [op |-> "delete", dealId |-> d,
                            status |-> HTTP_FORBIDDEN]
              /\ UNCHANGED <<deal_stage_history, activities, deleted,
                             changedAt>>
       ELSE IF d \in deleted
         THEN /\ answer' = [op |-> "delete", dealId |-> d,
                            status |-> HTTP_NOT_FOUND]
              /\ UNCHANGED <<deal_stage_history, activities, deleted,
                             changedAt>>
       ELSE IF Referenced(d)
         THEN /\ answer' = [op |-> "delete", dealId |-> d,
                            status |-> HTTP_ERROR]
              /\ UNCHANGED <<deal_stage_history, activities, deleted,
                             changedAt>>
       ELSE /\ deleted' = deleted \cup {d}
            /\ deal_stage_history' = HistoryCascade(d)
            /\ activities' = ActivitiesSetNull(d)
            /\ changedAt' = now
            /\ answer' = [op |-> "delete", dealId |-> d, status |-> HTTP_OK]
  /\ crudLeft' = crudLeft - 1
  /\ UNCHANGED <<deals, automation_log, email_queue, reqVars, viewVars>>

\* ------------------------------------------------------------ the overview
\* The query, were it to lack WHERE ps.is_active = true.
MetricStagesAll == Stages

\* FROM pipeline_stages ps ... WHERE ps.is_active = true GROUP BY ps.id, ...
MetricStages == {s \in Stages : pipeline_stages[s].is_active}

\* deal_metrics: COUNT(d.id), COUNT(CASE WHEN d.status = 'won' ...) and
\* COUNT(CASE WHEN d.status = 'lost' ...) over LEFT JOIN deals d ON ps.id =
\* d.pipeline_stage_id, for one stage.  The value, probability and age
\* columns of the row play no part in the rates and are left out.
DealMetrics(ds, s) ==
  LET of == {d \in DOMAIN ds : ds[d].pipeline_stage_id = s}
  IN [stage_id |-> s,
      display_order |-> pipeline_stages[s].display_order,
      deal_count |-> Cardinality(of),
      won_deals |-> Cardinality({d \in of : ds[d].status = "won"}),
      lost_deals |-> Cardinality({d \in of : ds[d].status = "lost"})]

\* ORDER BY display_order
ByDisplayOrder(S) ==
  CHOOSE seq \in [1..Cardinality(S) -> S] :
     \A i, j \in 1..Cardinality(S) :
        i < j => pipeline_stages[seq[i]].display_order
                   < pipeline_stages[seq[j]].display_order

\* ROUND(a / b, 0) of PostgreSQL numeric and Math.round(a / b), for a >= 0
\* and b > 0: the nearest integer, a half rounded up.
RoundDiv(a, b) == (2 * a + b) \div (2 * b)

\* CASE WHEN deal_count > 0
\*   THEN ROUND((won_deals::decimal / deal_count) * 100, 2) ELSE 0 END
WinRate(m) ==
  IF m.deal_count > 0
    THEN RoundDiv(m.won_deals * Percent * Cent, m.deal_count) ELSE 0

\* LAG(deal_count) OVER (ORDER BY display_order): the deal_count of the row
\* before, NULL (no value) for the first row
Lag(rows, i) == IF i > 1 THEN {rows[i - 1].deal_count} ELSE {}

\* CASE WHEN LAG(deal_count) OVER (...) > 0
\*   THEN ROUND((deal_count::decimal / LAG(deal_count) OVER (...)) * 100, 2)
\*   ELSE 100 END, and COALESCE(conversion_rate, 100)
ConversionRate(rows, i) ==
  IF \E p \in Lag(rows, i) : p > 0
    THEN RoundDiv(rows[i].deal_count * Percent * Cent,
                  CHOOSE p \in Lag(rows, i) : TRUE)
    ELSE Percent * Cent

\* result.rows: the rows of conversion_rates, ORDER BY display_order
ConversionRates(ds) ==
  LET order == ByDisplayOrder(MetricStages)
      m == [i \in DOMAIN order |-> DealMetrics(ds, order[i])]
  IN [i \in DOMAIN order |->
        [stage_id |-> m[i].stage_id,
         display_order |-> m[i].display_order,
         deal_count |-> m[i].deal_count,
         won_deals |-> m[i].won_deals,
         lost_deals |-> m[i].lost_deals,
         win_rate |-> WinRate(m[i]),
         conversion_rate |-> ConversionRate(m, i)]]

\* result.rows.reduce((sum, stage) => sum + ..., 0)
RECURSIVE Reduce(_)
Reduce(s) == IF s = <<>> THEN 0 ELSE Head(s) + Reduce(Tail(s))

\* pipeline_summary: totalDeals, and Math.round(avgWinRate * 100) / 100 of
\* the mean of the rows' win_rate
PipelineSummary(rows) ==
  [total_deals |-> Reduce([i \in DOMAIN rows |-> rows[i].deal_count]),
   avg_win_rate |->
      IF Len(rows) > 0
        THEN RoundDiv(Reduce([i \in DOMAIN rows |-> rows[i].win_rate]),
                      Len(rows))
        ELSE 0]

\* The function the handler passes to getOrSetCache: the query on the
\* committed deals and the snapshot built from its rows at time t.
FetchFunc(ds, t) ==
  LET rows == ConversionRates(ds)
  IN [pipeline_stages |-> rows,
      pipeline_summary |-> PipelineSummary(rows),
      last_updated |-> t]

\* --------------------------------------------------------------- the cache
\* JSON.stringify and JSON.parse.  The snapshot is made of strings, finite
\* numbers, arrays and plain objects only (the driver returns numeric columns
\* as strings, last_updated is an ISO string), which JSON text represents
\* without loss; the text is never the empty string.
Stringify(v) == [json |-> v]
Parse(text) == text.json

\* The expiry of an entry, were it the time of the SET itself.
ExpiryNow(t, ttl) == t

\* { EX: ttl }: the entry lives ttl seconds from the SET
Expiry(t, ttl) == t + ttl

\* GET, were Redis to keep an entry past its expiry.
RedisGetStale(key, t) ==
  IF redis[key].present THEN {redis[key].text} ELSE {}

\* redis.get(key) at time t: the text of the entry, nothing (null) when the
\* key has no entry or the entry has expired
RedisGet(key, t) ==
  IF redis[key].present /\ t < redis[key].expiresAt
    THEN {redis[key].text} ELSE {}

\* redis.set(key, text, { EX: ttl }) by call c at time t
RedisSet(key, text, ttl, c, t) ==
  [present |-> TRUE, text |-> text, expiresAt |-> Expiry(t, ttl),
   by |-> c, at |-> t]

\* A Redis command may fail while Redis is unavailable.
MayFailRedis == IF outages > 0 THEN BOOLEAN ELSE {FALSE}

\* How long ago the deals state that a snapshot shows ceased to be the
\* committed one: 0 when the snapshot shows the committed state.
Staleness(data) ==
  IF data.pipeline_stages = ConversionRates(LiveDeals) THEN 0 ELSE now - changedAt

\* The seconds between two observations of the clock.
TickSeconds == TTL \div 3

\* The overview call arrives; getOrSetCache: const cached = await
\* redis.get(key); if (cached) return JSON.parse(cached); and res.json(data)
\* on a hit.  An exception of redis.get reaches the catch of the handler.
GetCached(c) ==
  /\ vpc[c] = "idle"
  /\ c <= viewers
  /\ \A q \in Views : q < c => vpc[q] # "idle"
  /\ \E key \in Keys, fail \in MayFailRedis :
       LET reply == RedisGet(key, now)
           t == [vtrace[c] EXCEPT !.getAt = now, !.saw = redis[key],
                                  !.failed = fail]
       IN /\ outages' = IF fail THEN outages - 1 ELSE outages
          /\ IF fail
               THEN /\ vstatus' = [vstatus EXCEPT ![c] = HTTP_ERROR]
                    /\ vpc' = [vpc EXCEPT ![c] = "done"]
                    /\ vtrace' = [vtrace EXCEPT ![c] = t]
                    /\ UNCHANGED vdata
             ELSE IF reply # {}
               THEN LET data == Parse(CHOOSE x \in reply : TRUE)
                    IN /\ vdata' = [vdata EXCEPT ![c] = data]
                       /\ vstatus' = [vstatus EXCEPT ![c] = HTTP_OK]
                       /\ vpc' = [vpc EXCEPT ![c] = "done"]
                       /\ vtrace' = [vtrace EXCEPT ![c] =
                                       [t EXCEPT !.stale = Staleness(data)]]
             ELSE /\ vpc' = [vpc EXCEPT ![c] = "fetch"]
                  /\ vtrace' = [vtrace EXCEPT ![c] = t]
                  /\ UNCHANGED <<vstatus, vdata>>
  /\ UNCHANGED <<dbVars, reqVars, crudVars, changedAt, now, redis, viewers>>

\* const fresh = await fetchFunc(): the aggregation query and the snapshot
Fetch(c) ==
  /\ vpc[c] = "fetch"
  /\ vdata' = [vdata EXCEPT ![c] = FetchFunc(LiveDeals, now)]
  /\ vtrace' = [vtrace EXCEPT ![c].fetches = @ + 1]
  /\ vpc' = [vpc EXCEPT ![c] = "set"]
  /\ UNCHANGED <<dbVars, reqVars, crudVars, changedAt, now, redis, viewers, outages,
                 vstatus>>

\* await redis.set(key, JSON.stringify(fresh), { EX: ttl }); return fresh;
\* and res.json(data).  An exception of redis.set reaches the catch of the
\* handler.
SetCached(c) ==
  /\ vpc[c] = "set"
  /\ \E key \in Keys, fail \in MayFailRedis :
       LET entry == RedisSet(key, Stringify(vdata[c]), TTL, c, now)
       IN /\ outages' = IF fail THEN outages - 1 ELSE outages
          /\ vpc' = [vpc EXCEPT ![c] = "done"]
          /\ IF fail
               THEN /\ vstatus' = [vstatus EXCEPT ![c] = HTTP_ERROR]
                    /\ vtrace' = [vtrace EXCEPT ![c].failed = TRUE]
                    /\ UNCHANGED redis
               ELSE /\ redis' = [redis EXCEPT ![key] = entry]
                    /\ vstatus' = [vstatus EXCEPT ![c] = HTTP_OK]
                    /\ vtrace' = [vtrace EXCEPT ![c].stored = entry,
                                                ![c].stale =
                                                   Staleness(vdata[c])]
  /\ UNCHANGED <<dbVars, reqVars, crudVars, changedAt, now, viewers, vdata>>

\* Time passes while an overview call is still to be answered.
Tick ==
  /\ now < MaxTicks * TickSeconds
  /\ \E c \in Views : vpc[c] # "idle"
  /\ \E c \in Views : c <= viewers /\ vpc[c] # "done"
  /\ now' = now + TickSeconds
  /\ UNCHANGED <<dbVars, reqVars, crudVars, changedAt, redis, viewers, outages, vpc,
                 vstatus, vdata, vtrace>>

Next ==
  \E r \in Reqs :
     \/ Receive(r)
     \/ ReadDeal(r)
     \/ UpdateDeal(r)
     \/ InsertHistory(r)
     \/ SelectRules(r)
     \/ ExecuteRule(r)
     \/ Commit(r)

Spec == Init /\ [][Next]_vars

SpecConcurrent == InitConcurrent /\ [][Next]_vars

\* The transition request, the overview calls and the clock.
NextCache ==
  \/ \E r \in Reqs :
        \/ Receive(r)
        \/ ReadDeal(r)
        \/ UpdateDeal(r)
        \/ InsertHistory(r)
        \/ SelectRules(r)
        \/ ExecuteRule(r)
        \/ Commit(r)
  \/ \E c \in Views :
        \/ GetCached(c)
        \/ Fetch(c)
        \/ SetCached(c)
  \/ Tick

SpecCache == InitCache /\ [][NextCache]_vars

\* The overview call alone.
NextOverview ==
  \E c \in Views :
     \/ GetCached(c)
     \/ Fetch(c)
     \/ SetCached(c)

SpecOverview == InitOverview /\ [][NextOverview]_vars

\* The transition handler next to the deal update and delete routes.
NextCrud ==
  \/ \E r \in Reqs :
       \/ Receive(r)
       \/ ReadDeal(r)
       \/ UpdateDeal(r)
       \/ InsertHistory(r)
       \/ SelectRules(r)
       \/ ExecuteRule(r)
       \/ Commit(r)
  \/ PutDeal
  \/ DeleteDeal

SpecCrud == InitCrud /\ [][NextCrud]_vars

\* =================================================================== claims
\* The rows of a table that request r wrote.
RowsBy(table, r) == {i \in DOMAIN table : table[i].req = r}

\* The rules a transition from one stage to another is matched by.
Matched(r) == MatchedRules(deal[r].pipeline_stage_id, body[r].stage_id)

\* No infrastructure failure has happened so far.
NoFault == faults = MaxFaults

\* C1: a stage request answered 500 after BEGIN leaves the committed state as
\* it was before the request: the deals rows are unchanged and no history,
\* automation_log, activities or email_queue row of the request persists.
C1_ErrorLeavesStateUnchanged ==
  \A r \in Reqs :
     status[r] = HTTP_ERROR =>
        /\ deals = InitialDeals
        /\ deal_stage_history = <<>>
        /\ automation_log = <<>>
        /\ activities = <<>>
        /\ email_queue = <<>>

\* A request answered 500 by a failed COMMIT, after rules had run.
C1_Witness ==
  \E r \in Reqs :
     /\ status[r] = HTTP_ERROR
     /\ attempted[r] # <<>>
     /\ updatedDeal[r] # NoDeal

\* C2: whenever the handler answers 200, exactly one history row of the
\* request is committed, from the deal's stage before the request to the
\* requested stage, and the committed deal is in the requested stage; this
\* for every outcome of the rules (stated here for runs without any
\* infrastructure failure).
C2_SuccessCommitsTransition ==
  \A r \in Reqs :
     (status[r] = HTTP_OK /\ NoFault) =>
        LET d == body[r].dealId
        IN /\ Cardinality(RowsBy(deal_stage_history, r)) = 1
           /\ \A i \in RowsBy(deal_stage_history, r) :
                 /\ deal_stage_history[i].from_stage_id =
                      InitialDeals[d].pipeline_stage_id
                 /\ deal_stage_history[i].to_stage_id = body[r].stage_id
           /\ deals[d].pipeline_stage_id = body[r].stage_id

\* C3: if a matched rule throws while its action executes, the transition
\* still commits the deal update and the history row, and the rule's
\* automation_log row is 'failed' with an error message.
C3_ThrowingRuleIsIsolated ==
  \A r \in Reqs :
     (status[r] = HTTP_OK /\ NoFault /\ threw[r] # {}) =>
        LET d == body[r].dealId
        IN /\ RowsBy(deal_stage_history, r) # {}
           /\ deals[d].pipeline_stage_id = body[r].stage_id
           /\ \A i \in threw[r] :
                 \E k \in RowsBy(automation_log, r) :
                    /\ automation_log[k].rule_id = i
                    /\ automation_log[k].execution_result = "failed"
                    /\ automation_log[k].has_error_message

\* C4: when the execution of a selected rule raises, every rule selected
\* after it is still executed.
C4_LaterRulesStillRun ==
  \A r \in Reqs :
     (pc[r] \in {"commit", "done"} /\ NoFault) =>
        \A i \in DOMAIN attempted[r] :
           attempted[r][i] \in threw[r] =>
              \A j \in DOMAIN selected[r] :
                 j > i => \E k \in DOMAIN attempted[r] :
                             attempted[r][k] = selected[r][j]

\* C5: after a committed transition with trigger_automation = true that N
\* active rules match, exactly N automation_log rows of the transition exist,
\* one per matched rule, all for the deal of the transition.
C5_OneLogRowPerMatchedRule ==
  \A r \in Reqs :
     (applied[r] /\ body[r].trigger_automation) =>
        /\ Cardinality(RowsBy(automation_log, r)) = Cardinality(Matched(r))
        /\ \A i \in Matched(r) :
              Cardinality({k \in RowsBy(automation_log, r) :
                             automation_log[k].rule_id = i}) = 1
        /\ \A k \in RowsBy(automation_log, r) :
              automation_log[k].deal_id = body[r].dealId

\* A committed transition matched by two rules, one logged 'failed' and one
\* logged 'success'.
C5_Witness ==
  \E r \in Reqs :
     /\ applied[r]
     /\ body[r].trigger_automation
     /\ Cardinality(Matched(r)) = 2
     /\ \E k \in RowsBy(automation_log, r) :
           automation_log[k].execution_result = "failed"
     /\ \E k \in RowsBy(automation_log, r) :
           automation_log[k].execution_result = "success"

\* Two requests whose transactions were open at the same time.
Overlap(q, r) == q \in overlapped[r] \/ r \in overlapped[q]

\* C6: of two committed transitions of one deal whose transactions overlap,
\* the one that commits second records as from_stage_id the to_stage_id of the
\* one that commits first.
C6_OverlappingTransitionsAreSerialized ==
  \A i, j \in DOMAIN deal_stage_history :
     ( /\ i < j
       /\ deal_stage_history[i].deal_id = deal_stage_history[j].deal_id
       /\ Overlap(deal_stage_history[i].req, deal_stage_history[j].req) ) =>
        deal_stage_history[j].from_stage_id = deal_stage_history[i].to_stage_id

\* The probability a committed transition leaves when it runs alone: that of
\* the last update_probability rule that ran, else the target stage's.
RanProbability(r) ==
  {k \in DOMAIN attempted[r] :
     /\ automation_rules[attempted[r][k]].action_type = "update_probability"
     /\ attempted[r][k] \notin threw[r]}

AloneProbability(r) ==
  IF RanProbability(r) = {}
    THEN pipeline_stages[body[r].stage_id].win_probability
    ELSE LET k == CHOOSE x \in RanProbability(r) :
                     \A y \in RanProbability(r) : y <= x
         IN automation_rules[attempted[r][k]].action_data.probability

\* What a finished request leaves of its deal when it runs alone: every
\* ledger row of the deal is its own, the deal row is the initial one if it did
\* not commit, and if it committed the deal row has the requested stage and
\* the probability of the request's own rules, and the history row starts at
\* the deal's initial stage.
AloneResult(r) ==
  LET d == body[r].dealId
  IN /\ \A i \in DOMAIN deal_stage_history :
           deal_stage_history[i].deal_id = d =>
              /\ deal_stage_history[i].req = r
              /\ deal_stage_history[i].from_stage_id =
                   InitialDeals[d].pipeline_stage_id
     /\ \A i \in DOMAIN automation_log :
           automation_log[i].deal_id = d => automation_log[i].req = r
     /\ \A i \in DOMAIN email_queue :
           email_queue[i].deal_id = d => email_queue[i].req = r
     /\ IF applied[r]
          THEN /\ deals[d].pipeline_stage_id = body[r].stage_id
               /\ deals[d].probability = AloneProbability(r)
               /\ deals[d].assigned_user_id = InitialDeals[d].assigned_user_id
               /\ Cardinality(RowsBy(deal_stage_history, r)) = 1
          ELSE /\ deals[d] = InitialDeals[d]
               /\ RowsBy(deal_stage_history, r) = {}

\* C7: a request whose deal no other request names leaves, under every
\* interleaving, what it leaves when run alone, and its UPDATE never waits
\* for a row lock.
C7_DifferentDealsIndependent ==
  \A r \in Reqs :
     (\A q \in Reqs \ {r} : body[q].dealId # body[r].dealId) =>
        /\ (pc[r] = "update" => rowLock[body[r].dealId] = Null)
        /\ (pc[r] = "done" => AloneResult(r))

\* Two committed transitions of different deals whose transactions overlapped,
\* one of them with an update_probability rule that ran.
C7_Witness ==
  \E q, r \in Reqs :
     /\ q # r
     /\ applied[q] /\ applied[r]
     /\ body[q].dealId # body[r].dealId
     /\ Overlap(q, r)
     /\ RanProbability(r) # {}

\* C8: a committed transition to stage S2 for which no matching active
\* update_probability rule runs (or trigger_automation is false) leaves the
\* deal's probability equal to S2.win_probability.
C8_ProbabilityIsStageDefault ==
  \A r \in Reqs :
     ( /\ applied[r]
       /\ \/ ~body[r].trigger_automation
          \/ \A i \in Matched(r) :
                automation_rules[i].action_type # "update_probability" ) =>
        deals[body[r].dealId].probability =
           pipeline_stages[body[r].stage_id].win_probability

\* A committed transition to a stage of another win probability, with rules
\* that ran.
C8_Witness ==
  \E r \in Reqs :
     /\ applied[r]
     /\ body[r].trigger_automation
     /\ attempted[r] # <<>>
     /\ \A i \in Matched(r) :
           automation_rules[i].action_type # "update_probability"
     /\ pipeline_stages[body[r].stage_id].win_probability #
          InitialDeals[body[r].dealId].probability

\* The transition of request r is matched by exactly one active rule, an
\* update_probability rule that carries a probability.
OneProbabilityRule(r, i) ==
  /\ body[r].trigger_automation
  /\ Matched(r) = {i}
  /\ automation_rules[i].action_type = "update_probability"
  /\ automation_rules[i].action_data.present

\* C9: a committed transition with trigger_automation = true matched by one
\* active update_probability rule leaves the deal's probability equal to the
\* rule's action_data.probability, one history row and one automation_log
\* row, of result success.
C9_RuleOverridesProbability ==
  \A r \in Reqs :
     \A i \in DOMAIN automation_rules :
        (applied[r] /\ OneProbabilityRule(r, i)) =>
           /\ deals[body[r].dealId].probability =
                automation_rules[i].action_data.probability
           /\ Cardinality(RowsBy(deal_stage_history, r)) = 1
           /\ Cardinality(RowsBy(automation_log, r)) = 1
           /\ \A k \in RowsBy(automation_log, r) :
                 /\ automation_log[k].rule_id = i
                 /\ automation_log[k].execution_result = "success"

\* Such a transition, where the rule's probability is not the stage's.
C9_Witness ==
  \E r \in Reqs :
     \E i \in DOMAIN automation_rules :
        /\ applied[r]
        /\ OneProbabilityRule(r, i)
        /\ automation_rules[i].action_data.probability #
             pipeline_stages[body[r].stage_id].win_probability

\* C10: the rules a transition executes are exactly the active rules whose
\* from_stage_id is null or the origin and whose to_stage_id is null or the
\* destination.
C10_ExecutesExactlyTheMatchingRules ==
  \A r \in Reqs :
     (status[r] = HTTP_OK /\ NoFault /\ body[r].trigger_automation) =>
        {attempted[r][k] : k \in DOMAIN attempted[r]} =
           {i \in DOMAIN automation_rules :
              /\ automation_rules[i].is_active
              /\ automation_rules[i].from_stage_id
                   \in {Null, deal[r].pipeline_stage_id}
              /\ automation_rules[i].to_stage_id \in {Null, body[r].stage_id}}

\* C11: the rules of a transition are executed in descending priority, and
\* rules of equal priority in the order of their creation (their ids).
C11_PriorityThenCreationOrder ==
  \A r \in Reqs :
     \A i, j \in DOMAIN attempted[r] :
        i < j =>
           LET a == automation_rules[attempted[r][i]]
               b == automation_rules[attempted[r][j]]
           IN \/ a.priority > b.priority
              \/ a.priority = b.priority /\ attempted[r][i] < attempted[r][j]

\* C12: a request answered 400, 403 or 404 leaves the deals rows and the
\* history, automation_log, activities and email_queue tables as they were,
\* and a request that names a stage that does not exist is never answered 200
\* and never changes the pipeline_stage_id of its deal.
C12_RejectedRequestChangesNothing ==
  \A r \in Reqs :
     /\ status[r] \in {HTTP_BAD_REQUEST, HTTP_FORBIDDEN, HTTP_NOT_FOUND} =>
           /\ deals = InitialDeals
           /\ deal_stage_history = <<>>
           /\ automation_log = <<>>
           /\ activities = <<>>
           /\ email_queue = <<>>
     /\ (pc[r] = "done" /\ body[r].stage_id \notin Stages) =>
           /\ status[r] # HTTP_OK
           /\ deals[body[r].dealId].pipeline_stage_id =
                InitialDeals[body[r].dealId].pipeline_stage_id

\* A request of the admin for a stage id that no stage has, answered 404
\* after its transaction was opened and rolled back.
C12_Witness ==
  \E r \in Reqs :
     /\ status[r] = HTTP_NOT_FOUND
     /\ body[r].stage_id \notin Stages
     /\ ValidBody(body[r])
     /\ role[body[r].userId] = "admin"
     /\ tx[r] = NoTx

\* C13: every stage that a committed transition sets was active: a request
\* for a stage with is_active = false commits nothing.
C13_InactiveStageRejected ==
  \A r \in Reqs :
     applied[r] => pipeline_stages[body[r].stage_id].is_active

\* C14: a request is answered 403 only when its user is neither an admin nor
\* the user the deal is assigned to.
C14_OwnerOrAdminMayTransition ==
  \A r \in Reqs :
     status[r] = HTTP_FORBIDDEN =>
        /\ role[body[r].userId] # "admin"
        /\ InitialDeals[body[r].dealId].assigned_user_id # body[r].userId

\* getOrSetCache found an entry of the key that had not expired.
FoundUnexpired(c) ==
  vtrace[c].saw.present /\ vtrace[c].getAt < vtrace[c].saw.expiresAt

\* C15: a call of getOrSetCache that returns, having found an unexpired entry
\* of the key, returns the stored value and does not invoke compute; having
\* found no entry or an expired one, it has invoked compute exactly once,
\* stored the result under the key with the expiry now + ttl, and returns
\* that result.
C15_CacheAside ==
  \A c \in Views :
     /\ vtrace[c].fetches <= 1
     /\ vstatus[c] = HTTP_OK =>
          IF FoundUnexpired(c)
            THEN /\ vdata[c] = Parse(vtrace[c].saw.text)
                 /\ vtrace[c].fetches = 0
                 /\ ~vtrace[c].stored.present
            ELSE /\ vtrace[c].fetches = 1
                 /\ vtrace[c].stored.present
                 /\ Parse(vtrace[c].stored.text) = vdata[c]
                 /\ vtrace[c].stored.expiresAt = vtrace[c].stored.at + TTL

\* A call that found no entry, computed and stored, and a later call that was
\* served the stored snapshot.
C15_Witness ==
  \E c, d \in Views :
     /\ vstatus[c] = HTTP_OK /\ vstatus[d] = HTTP_OK
     /\ ~vtrace[c].saw.present
     /\ vtrace[c].fetches = 1
     /\ FoundUnexpired(d)
     /\ vtrace[d].saw.by = c
     /\ vtrace[d].getAt > vtrace[c].stored.at

\* Two answered overview calls made less than TTL apart, with no transition
\* committed.
SameWindow(c, d) ==
  /\ c # d
  /\ vstatus[c] = HTTP_OK /\ vstatus[d] = HTTP_OK
  /\ vtrace[c].getAt <= vtrace[d].getAt
  /\ vtrace[d].getAt - vtrace[c].getAt < TTL
  /\ \A r \in Reqs : ~applied[r]

\* C16 as stated: two overview calls within one TTL window and without a
\* write in between return identical snapshots and the aggregation query runs
\* once, also when the second call starts while the first is computing.
C16_TwoCallsOneQuery ==
  \A c, d \in Views :
     SameWindow(c, d) =>
        /\ vdata[c] = vdata[d]
        /\ vtrace[c].fetches + vtrace[d].fetches = 1

\* C16, amended: two overview calls within one TTL window and without a write
\* in between, the second of which reads the cache after the first has stored
\* its snapshot, return identical snapshots (last_updated included), and the
\* aggregation query runs once, in the first.
C16_SecondCallAfterStore ==
  \A c, d \in Views :
     ( /\ SameWindow(c, d)
       /\ vtrace[d].saw.present
       /\ vtrace[d].saw.by = c ) =>
        /\ vdata[c] = vdata[d]
        /\ vtrace[c].fetches = 1
        /\ vtrace[d].fetches = 0

\* Two such calls, the second made later than the first.
C16_Witness ==
  \E c, d \in Views :
     /\ SameWindow(c, d)
     /\ vtrace[d].saw.present
     /\ vtrace[d].saw.by = c
     /\ vtrace[d].getAt > vtrace[c].getAt

\* C17: an overview call during which redis.get or redis.set raised is
\* answered 200.
C17_CacheOutageTolerated ==
  \A c \in Views :
     (vpc[c] = "done" /\ vtrace[c].failed) => vstatus[c] = HTTP_OK

\* C18: the snapshot an overview call answers shows a deals state that was
\* the committed one at most TTL seconds before the answer.
C18_StalenessWithinTTL ==
  \A c \in Views :
     vstatus[c] = HTTP_OK => vtrace[c].stale <= TTL

\* The deals of a stage, and those of them that are won.
StageDeals(s) == {d \in DOMAIN deals : deals[d].pipeline_stage_id = s}
StageWon(s) == {d \in StageDeals(s) : deals[d].status = "won"}

\* x is the percentage a / b to the nearest hundredth.
NearestRate(x, a, b) ==
  LET diff == x * b - a * Percent * Cent
  IN 2 * (IF diff < 0 THEN -diff ELSE diff) <= b

\* The active stages that come before stage s in display_order.
ActiveBefore(s) ==
  {p \in Stages :
     /\ pipeline_stages[p].is_active
     /\ pipeline_stages[p].display_order < pipeline_stages[s].display_order}

\* The snapshot of call c has been computed from the deals table.
Computed(c) == vpc[c] = "set" \/ (vpc[c] = "done" /\ vstatus[c] = HTTP_OK)

\* C19: the snapshot has one row per active stage, in display_order; a row's
\* win rate is won / total of its stage, and 0 when the stage has no deals;
\* its conversion rate is its deal count relative to that of the nearest
\* active stage before it, and 100% when there is none or that stage has no
\* deals.
C19_WinAndConversionRates ==
  \A c \in Views :
     Computed(c) =>
        LET rows == vdata[c].pipeline_stages
        IN /\ {rows[i].stage_id : i \in DOMAIN rows} =
                {s \in Stages : pipeline_stages[s].is_active}
           /\ \A i, j \in DOMAIN rows :
                 i < j => rows[i].display_order < rows[j].display_order
           /\ \A i \in DOMAIN rows :
                 LET s == rows[i].stage_id
                     total == Cardinality(StageDeals(s))
                     before == ActiveBefore(s)
                     prev == CHOOSE p \in before :
                                \A q \in before :
                                   pipeline_stages[q].display_order
                                     <= pipeline_stages[p].display_order
                 IN /\ rows[i].display_order = pipeline_stages[s].display_order
                    /\ rows[i].deal_count = total
                    /\ IF total = 0
                         THEN rows[i].win_rate = 0
                         ELSE NearestRate(rows[i].win_rate,
                                          Cardinality(StageWon(s)), total)
                    /\ IF before = {} \/ StageDeals(prev) = {}
                         THEN rows[i].conversion_rate = Percent * Cent
                         ELSE NearestRate(rows[i].conversion_rate, total,
                                          Cardinality(StageDeals(prev)))

\* A snapshot whose second row has a conversion rate of 50% and whose first
\* row has a win rate of 50%, while an inactive stage that lies between the
\* two in display_order holds a deal.
C19_Witness ==
  \E c \in Views :
     /\ vstatus[c] = HTTP_OK
     /\ Len(vdata[c].pipeline_stages) = 2
     /\ vdata[c].pipeline_stages[1].win_rate = 50 * Cent
     /\ vdata[c].pipeline_stages[2].conversion_rate = 50 * Cent
     /\ \E s \in Stages :
           /\ ~pipeline_stages[s].is_active
           /\ StageDeals(s) # {}
           /\ vdata[c].pipeline_stages[1].display_order
                < pipeline_stages[s].display_order
           /\ pipeline_stages[s].display_order
                < vdata[c].pipeline_stages[2].display_order

\* The sum of the fractions won / total of the rows, as a fraction; a stage
\* without deals counts 0.
RECURSIVE SumOfWinFractions(_)
SumOfWinFractions(rows) ==
  IF rows = <<>>
    THEN [num |-> 0, den |-> 1]
    ELSE LET rest == SumOfWinFractions(Tail(rows))
             won == IF Head(rows).deal_count = 0 THEN 0 ELSE Head(rows).won_deals
             total == IF Head(rows).deal_count = 0 THEN 1
                      ELSE Head(rows).deal_count
         IN [num |-> won * rest.den + rest.num * total,
             den |-> total * rest.den]

\* C20: the summary's mean win rate is the mean of the unrounded win rates of
\* the rows, rounded to two decimals.
C20_MeanOfUnroundedRates ==
  \A c \in Views :
     (Computed(c) /\ vdata[c].pipeline_stages # <<>>) =>
        LET rows == vdata[c].pipeline_stages
            sum == SumOfWinFractions(rows)
        IN vdata[c].pipeline_summary.avg_win_rate =
             RoundDiv(sum.num * Percent * Cent, sum.den * Len(rows))

\* The action types that the switch of executeAutomationRule has a case for.
KnownActions == {"create_task", "send_email", "update_probability"}

\* The rules request r executed whose action_type has no case.
UnknownAttempted(r) ==
  {attempted[r][k] : k \in DOMAIN attempted[r]} \cap
     {i \in DOMAIN automation_rules :
        automation_rules[i].action_type \notin KnownActions}

\* C21: a rule of an action_type other than create_task, send_email and
\* update_probability, once executed, has one automation_log row, of result
\* 'success', in the transaction and after its commit, and has no other
\* effect: a committed transition whose rules are all of this kind leaves no
\* activities row, no email_queue row, and the stage's probability.
C21_UnknownActionIsNoOp ==
  \A r \in Reqs :
     \A i \in UnknownAttempted(r) :
        /\ tx[r].state = "active" =>
              /\ Cardinality({k \in DOMAIN tx[r].log :
                                tx[r].log[k].rule_id = i}) = 1
              /\ \A k \in DOMAIN tx[r].log :
                    tx[r].log[k].rule_id = i =>
                       tx[r].log[k].execution_result = "success"
        /\ applied[r] =>
              /\ Cardinality({k \in RowsBy(automation_log, r) :
                                automation_log[k].rule_id = i}) = 1
              /\ \A k \in RowsBy(automation_log, r) :
                    automation_log[k].rule_id = i =>
                       automation_log[k].execution_result = "success"
              /\ Matched(r) = UnknownAttempted(r) =>
                    /\ RowsBy(activities, r) = {}
                    /\ RowsBy(email_queue, r) = {}
                    /\ deals[body[r].dealId].probability =
                         pipeline_stages[body[r].stage_id].win_probability

\* A committed transition matched by two rules of an unknown action_type.
C21_Witness ==
  \E r \in Reqs :
     /\ applied[r]
     /\ Cardinality(UnknownAttempted(r)) = 2
     /\ Matched(r) = UnknownAttempted(r)

\* The create_task rules request r executed that carry action_data.
TaskAttempted(r) ==
  {k \in DOMAIN attempted[r] :
     /\ automation_rules[attempted[r][k]].action_type = "create_task"
     /\ automation_rules[attempted[r][k]].action_data.present}

\* C22: every create_task rule that a transition answered 200 executed has
\* inserted one task for the deal.
C22_CreateTaskInsertsTask ==
  \A r \in Reqs :
     (status[r] = HTTP_OK /\ NoFault) =>
        /\ Cardinality(RowsBy(activities, r)) = Cardinality(TaskAttempted(r))
        /\ \A k \in RowsBy(activities, r) :
              activities[k].deal_id = body[r].dealId

\* C23: deal_stage_history is append-only: the history row of a committed
\* transition is still in the table after any later transition, deal update
\* or deal delete.
C23_HistoryAppendOnly ==
  \A r \in Reqs :
     applied[r] =>
        \E k \in RowsBy(deal_stage_history, r) :
           /\ deal_stage_history[k].deal_id = body[r].dealId
           /\ deal_stage_history[k].to_stage_id = body[r].stage_id

\* C24: pipeline_stage_id and probability of a deal are changed by the stage
\* transition handler only: a deal that left its first stage has a history
\* row to its current stage, and a deal whose probability changed was the
\* subject of a committed transition.
C24_OnlyTransitionChangesStage ==
  \A d \in Deals \ deleted :
     /\ deals[d].pipeline_stage_id # InitialDeals[d].pipeline_stage_id =>
           \E k \in DOMAIN deal_stage_history :
              /\ deal_stage_history[k].deal_id = d
              /\ deal_stage_history[k].to_stage_id = deals[d].pipeline_stage_id
     /\ deals[d].probability # InitialDeals[d].probability =>
           \E r \in Reqs : applied[r] /\ body[r].dealId = d

\* C25: the deal of a successful transition's response has the
\* pipeline_stage_id and the probability of the deal row the transition
\* committed, whatever rules ran.
C25_ResponseIsCommittedRow ==
  \A r \in Reqs :
     (applied[r] /\ status[r] = HTTP_OK) =>
        /\ updatedDeal[r].pipeline_stage_id =
              deals[body[r].dealId].pipeline_stage_id
        /\ updatedDeal[r].probability = deals[body[r].dealId].probability

\* C26: the history row of a committed transition has the id of the
\* authenticated user of the request as its changed_by_user_id.
C26_HistoryRecordsActor ==
  \A r \in Reqs :
     applied[r] =>
        \A k \in RowsBy(deal_stage_history, r) :
           deal_stage_history[k].changed_by_user_id = body[r].userId

\* The committed history rows of a deal, and whether the transitions that
\* wrote them ran one after the other: neither began while the other's
\* transaction was open.
HistoryOf(d) ==
  {k \in DOMAIN deal_stage_history : deal_stage_history[k].deal_id = d}
Sequential(d) ==
  \A i, j \in HistoryOf(d) :
     i # j => deal_stage_history[i].req \notin
                 overlapped[deal_stage_history[j].req]

\* C27: the history rows of transitions on one deal that did not overlap
\* form a chain in commit order: the from_stage_id of each row is the
\* to_stage_id of the row before it, and the deal is in the to_stage_id of
\* the last row.
C27_HistoryIsAChain ==
  \A d \in Deals :
     (Sequential(d) /\ HistoryOf(d) # {}) =>
        /\ \A i, j \in HistoryOf(d) :
              (i < j /\ ~\E k \in HistoryOf(d) : i < k /\ k < j) =>
                 deal_stage_history[j].from_stage_id =
                    deal_stage_history[i].to_stage_id
        /\ \A j \in HistoryOf(d) :
              (\A k \in HistoryOf(d) : k <= j) =>
                 deals[d].pipeline_stage_id = deal_stage_history[j].to_stage_id

\* Two transitions of one deal, the second begun after the first ended and
\* each to another stage than the one it left.
C27_Witness ==
  \E d \in Deals :
     /\ Sequential(d)
     /\ Cardinality(HistoryOf(d)) = 2
     /\ \A k \in HistoryOf(d) :
           deal_stage_history[k].from_stage_id #
              deal_stage_history[k].to_stage_id

\* C28: processAutomationRules lets no exception out: from the selection of
\* the rules and from every rule, whatever fails, the handler goes on to the
\* next rule or to COMMIT, with no response sent and no statement of its own
\* undone by a ROLLBACK of the handler.
C28_AutomationNeverThrows ==
  [][\A r \in Reqs :
        pc[r] \in {"automation", "rule"} =>
           /\ pc'[r] \in {"automation", "rule", "commit"}
           /\ status'[r] = status[r]
           /\ conn'[r] = conn[r]
           /\ tx'[r].state # "none"]_vars

\* The handler is about to COMMIT after an exception that left
\* executeAutomationRule ended the loop over the rules early.
C28_Witness ==
  \E r \in Reqs :
     /\ pc[r] = "commit"
     /\ body[r].trigger_automation
     /\ tx[r].state = "aborted"
     /\ attempted[r] # <<>>
     /\ Len(attempted[r]) < Len(selected[r])

\* C29: a request that took a client from the pool ends its transaction
\* before it releases the client, releases it exactly once and sends exactly
\* one response, whichever of 200, 403, 404 and 500 it answers; until then
\* it has released nothing and sent nothing.
C29_OneReleaseOneResponse ==
  \A r \in Reqs :
     /\ conn[r].released >= 1 =>
           /\ conn[r].ended
           /\ tx[r].state = "none"
           /\ \A d \in Deals : rowLock[d] # r
     /\ (conn[r].acquired /\ pc[r] = "done") =>
           /\ conn[r].released = 1
           /\ conn[r].responses = 1
           /\ status[r] \in {HTTP_OK, HTTP_FORBIDDEN, HTTP_NOT_FOUND, HTTP_ERROR}
     /\ pc[r] # "done" => (conn[r].released = 0 /\ conn[r].responses = 0)
     /\ pc[r] = "done" => conn[r].responses = 1

\* Two requests that took a client are answered, one with 500 after a
\* failure in its transaction and the other with another status.
C29_Witness ==
  \E r, q \in Reqs :
     /\ conn[r].acquired /\ pc[r] = "done" /\ status[r] = HTTP_ERROR
     /\ conn[q].acquired /\ pc[q] = "done" /\ status[q] # HTTP_ERROR

\* The update_probability rule of a request that ran last.
LastRanProbability(r) ==
  automation_rules[attempted[r][CHOOSE k \in RanProbability(r) :
                                  \A j \in RanProbability(r) : j <= k]]

\* C30: when several matched update_probability rules ran in a committed
\* transition, the deal has the probability of the one executed last, which
\* is one of lowest priority among them.
C30_LastProbabilityRuleWins ==
  \A r \in Reqs :
     (applied[r] /\ Cardinality(RanProbability(r)) >= 2) =>
        /\ deals[body[r].dealId].probability =
              LastRanProbability(r).action_data.probability
        /\ \A k \in RanProbability(r) :
              LastRanProbability(r).priority <=
                 automation_rules[attempted[r][k]].priority

\* Two update_probability rules of different priority and probability ran
\* and the deal has not the probability of the one of higher priority.
C30_Witness ==
  \E r \in Reqs :
     /\ applied[r]
     /\ \E i, j \in RanProbability(r) :
           /\ automation_rules[attempted[r][i]].priority >
                 automation_rules[attempted[r][j]].priority
           /\ automation_rules[attempted[r][i]].action_data.probability #
                 automation_rules[attempted[r][j]].action_data.probability
           /\ deals[body[r].dealId].probability #
                 automation_rules[attempted[r][i]].action_data.probability
====
